---------------------------- MODULE Spec2Model ----------------------------
(***************************************************************************)
(* Pitch class sets (ann-music-pc): the chroma codec, the canonicalizer,   *)
(* the property deriver, the constructor PC and the set algebra, modelled  *)
(* from src/src/methods.ts, src/src/properties.ts and src/src/index.ts.    *)
(*                                                                         *)
(* A JavaScript string is a sequence of one-character strings, so a chroma *)
(* is a sequence of "0"/"1" of length 12 whose element k+1 is the          *)
(* character at index k.  Note and interval names are atoms (TLA+          *)
(* strings).  A dynamically typed value is a record tagged by t.           *)
(*                                                                         *)
(* In Spec a behaviour is one call: Init draws the operation and its       *)
(* argument, the operation's action computes the result into out and moves *)
(* pc from "start" to "done".  The memoizing modules (src/unnamed/part_001 *)
(* and part_002) keep a cache per module, cache and cache2; SpecCache runs *)
(* any sequence of their calls and SpecRace interleaves the steps of       *)
(* several pcset calls.                                                    *)
(***************************************************************************)
EXTENDS Integers, Sequences, FiniteSets, TLC

VARIABLES op, arg, out, pc, cache, cache2, calls

vars == <<op, arg, out, pc, cache, cache2, calls>>

(***************************************************************************)
(* Bounds of the model                                                     *)
(***************************************************************************)
\* longest list of names handed to the list converters and list validators
MaxLen == 3
\* longest notes / intervals list carried by a constructor input
MaxInitLen == 2
\* number of pitch classes the operands of the binary set algebra draw from
PairBits == 5
\* number of pcset calls whose steps interleave
NumCalls == 2

(***************************************************************************)
(* JavaScript values and built-ins                                         *)
(***************************************************************************)
Undefined == [t |-> "undefined"]
JsStr(s) == [t |-> "string", v |-> s]
JsNum(n) == [t |-> "number", v |-> n]
JsArr(a) == [t |-> "array", v |-> a]

\* constructor inputs: no field, only a chroma, only a pcnum
NoInit ==
  [chroma |-> Undefined, pcnum |-> Undefined, note |-> Undefined,
   notes |-> Undefined, interval |-> Undefined, intervals |-> Undefined]

OnlyChroma(c) == [NoInit EXCEPT !.chroma = JsStr(c)]
OnlyPcNum(n) == [NoInit EXCEPT !.pcnum = JsNum(n)]

JsBool(b) == [t |-> "boolean", v |-> b]
JsNull == [t |-> "null"]

Max(a, b) == IF a > b THEN a ELSE b
Min(a, b) == IF a < b THEN a ELSE b

\* the value parseInt returns when the string starts with no digit
NaN == -1

BinaryDigits == {"0", "1"}

\* String.prototype.slice(start, end): negative indices count from the end
slice(s, start, end) ==
  LET len == Len(s)
      from == IF start < 0 THEN Max(len + start, 0) ELSE Min(start, len)
      to == IF end < 0 THEN Max(len + end, 0) ELSE Min(end, len)
  IN IF from < to THEN SubSeq(s, from + 1, to) ELSE <<>>

\* String.prototype.indexOf(ch): 0-based index of the first ch, -1 if none
indexOf(s, ch) ==
  IF \E i \in 1..Len(s) : s[i] = ch
  THEN (CHOOSE i \in 1..Len(s) : s[i] = ch /\ \A j \in 1..(i - 1) : s[j] # ch) - 1
  ELSE -1

RECURSIVE parseDigits(_, _)
parseDigits(s, acc) ==
  IF s = <<>> \/ Head(s) \notin BinaryDigits
  THEN acc
  ELSE parseDigits(Tail(s), 2 * acc + (IF Head(s) = "1" THEN 1 ELSE 0))

\* parseInt(s, 2): the value of the longest prefix of binary digits
parseInt(s) ==
  IF s = <<>> \/ Head(s) \notin BinaryDigits THEN NaN ELSE parseDigits(s, 0)

\* Number(n).toString(2) for n >= 0: no leading zeros, "0" for 0
RECURSIVE toString2(_)
toString2(n) ==
  IF n < 2
  THEN <<IF n = 1 THEN "1" ELSE "0">>
  ELSE toString2(n \div 2) \o <<IF n % 2 = 1 THEN "1" ELSE "0">>

\* String.prototype.padStart(targetLength, padChar)
padStart(s, targetLength, padChar) ==
  IF Len(s) >= targetLength
  THEN s
  ELSE [i \in 1..(targetLength - Len(s)) |-> padChar] \o s

(***************************************************************************)
(* External collaborators: the Note and Interval resolvers                 *)
(***************************************************************************)
\* pitch class of the note names the model uses; any other name is invalid
NoteChroma ==
  ("C" :> 0) @@ ("C4" :> 0) @@ ("D" :> 2) @@ ("E" :> 4) @@ ("G" :> 7) @@ ("B" :> 11)

\* pitch class of the interval names the model uses
IntervalChroma ==
  ("1P" :> 0) @@ ("8P" :> 0) @@ ("2M" :> 2) @@ ("3M" :> 4) @@ ("5P" :> 7) @@ ("7M" :> 11)

\* canonical interval name of each semitone index 0..11
INTERVALS ==
  <<"1P", "2m", "2M", "3m", "3M", "4P", "5d", "5P", "6m", "6M", "7m", "7M">>

isNoteName(name) == name \in DOMAIN NoteChroma
isIntervalName(name) == name \in DOMAIN IntervalChroma

Note(name) ==
  IF isNoteName(name)
  THEN [valid |-> TRUE, chroma |-> NoteChroma[name]]
  ELSE [valid |-> FALSE]

Interval(name) ==
  IF isIntervalName(name)
  THEN [valid |-> TRUE, chroma |-> IntervalChroma[name]]
  ELSE [valid |-> FALSE]

\* Interval(i).name for a numeric index i
IntervalName(i) == INTERVALS[i + 1]

(***************************************************************************)
(* Chroma codec and canonicalizer (methods.ts)                             *)
(***************************************************************************)
EmptyPc ==
  [pcnum |-> 0,
   chroma |-> [i \in 1..12 |-> "0"],
   normalized |-> [i \in 1..12 |-> "0"],
   intervals |-> <<>>,
   length |-> 0,
   empty |-> TRUE]

isPcNum(set) == set.t = "number" /\ set.v >= 0 /\ set.v <= 4095

isPcChroma(set) ==
  /\ set.t = "string"
  /\ Len(set.v) = 12
  /\ \A i \in 1..Len(set.v) : set.v[i] \in BinaryDigits

\* normalize with the two slices concatenated in the wrong order
normalize_Swapped(chroma) ==
  LET tonicPosition == indexOf(chroma, "1")
  IN slice(chroma, 0, tonicPosition) \o slice(chroma, tonicPosition, 12)

\* normalize rotating one position too far
normalize_OffByOne(chroma) ==
  LET tonicPosition == indexOf(chroma, "1") + 1
  IN slice(chroma, tonicPosition, 12) \o slice(chroma, 0, tonicPosition)

normalize(chroma) ==
  LET tonicPosition == indexOf(chroma, "1")
  IN slice(chroma, tonicPosition, 12) \o slice(chroma, 0, tonicPosition)

toNum(chroma) == parseInt(chroma)

RECURSIVE toIntervalsFrom(_, _)
toIntervalsFrom(chroma, i) ==
  IF i >= Len(chroma)
  THEN <<>>
  ELSE (IF chroma[i + 1] = "1" THEN <<IntervalName(i)>> ELSE <<>>)
         \o toIntervalsFrom(chroma, i + 1)

\* toIntervals skipping index 0
toIntervals_SkipFirst(chroma) == toIntervalsFrom(chroma, 1)

toIntervals(chroma) == toIntervalsFrom(chroma, 0)

\* fromNum without the padding
fromNum_NoPad(num) == toString2(num)

fromNum(num) == padStart(toString2(num), 12, "0")

(***************************************************************************)
(* List converters (methods.ts, index.ts)                                  *)
(***************************************************************************)
\* Array(12).fill(0)
ZeroBinary == [i \in 1..12 |-> 0]

\* Array.prototype.join(''): each number is written as its digit
join(binary) == [i \in 1..Len(binary) |-> IF binary[i] = 1 THEN "1" ELSE "0"]

RECURSIVE fromNotesLoop(_, _, _)
fromNotesLoop(set, i, binary) ==
  IF i >= Len(set)
  THEN binary
  ELSE LET pitch == Note(set[i + 1])
       IN fromNotesLoop(set, i + 1,
            IF pitch.valid THEN [binary EXCEPT ![pitch.chroma + 1] = 1] ELSE binary)

fromNotes(set) ==
  IF Len(set) = 0 THEN EmptyPc.chroma ELSE join(fromNotesLoop(set, 0, ZeroBinary))

RECURSIVE fromIntervalsLoop(_, _, _)
fromIntervalsLoop(set, i, binary) ==
  IF i >= Len(set)
  THEN binary
  ELSE LET pitch == Interval(set[i + 1])
       IN fromIntervalsLoop(set, i + 1,
            IF pitch.valid THEN [binary EXCEPT ![pitch.chroma + 1] = 1] ELSE binary)

fromIntervals(set) ==
  IF Len(set) = 0 THEN EmptyPc.chroma ELSE join(fromIntervalsLoop(set, 0, ZeroBinary))

\* the loop of fromArray; pitch is declared once, before the loop, and keeps
\* the value of the previous iteration when an element is neither a note nor
\* an interval
RECURSIVE fromArrayLoop(_, _, _, _)
fromArrayLoop(set, i, binary, pitch) ==
  IF i >= Len(set)
  THEN join(binary)
  ELSE LET asNote == IF isNoteName(set[i + 1]) THEN Note(set[i + 1]) ELSE pitch
           asIvl == IF isIntervalName(set[i + 1]) THEN Interval(set[i + 1]) ELSE asNote
       IN IF asIvl = Undefined \/ ~asIvl.valid
          THEN EmptyPc.chroma
          ELSE fromArrayLoop(set, i + 1, [binary EXCEPT ![asIvl.chroma + 1] = 1], asIvl)

fromArray(set) ==
  IF Len(set) = 0 THEN EmptyPc.chroma ELSE fromArrayLoop(set, 0, ZeroBinary, Undefined)

(***************************************************************************)
(* List validators (methods.ts)                                            *)
(***************************************************************************)
\* the keys of the exported Validators object
Validators == {"isPcNum", "isPcChroma", "isPcSet", "isNoteArray", "isIntervalArray"}

\* element k of an array, undefined (tested as the text "undefined") past its end
At(list, k) == IF k < Len(list) THEN list[k + 1] ELSE "undefined"

both(a, b) == a /\ b

isNoteArray(notes) ==
  LET first == At(notes, 0)
      second == At(notes, 1)
  IN both(isNoteName(first), isNoteName(second))

isIntervalArray(intervals) ==
  LET first == At(intervals, 0)
      second == At(intervals, 1)
  IN both(isIntervalName(first), isIntervalName(second))

(***************************************************************************)
(* Property deriver and constructor (properties.ts)                        *)
(***************************************************************************)
PcBuild(chroma) ==
  LET pcnum == toNum(chroma)
      normalized == normalize(chroma)
      intervals == toIntervals(normalized)
      length == Cardinality({i \in 1..Len(chroma) : chroma[i] = "1"})
  IN [pcnum |-> pcnum,
      chroma |-> chroma,
      normalized |-> normalized,
      intervals |-> intervals,
      length |-> length,
      empty |-> (0 = length)]

fromPcNum(num) == PcBuild(fromNum(num))

fromNotesList(notes) == PcBuild(fromNotes(notes))

fromIntervalsList(intervals) == PcBuild(fromIntervals(intervals))

\* outcomes of a call: a returned value, with the error it signalled, or an
\* exception
Returned(value) == [kind |-> "return", value |-> value, signal |-> "none"]
Thrown(error) == [kind |-> "throw", error |-> error]

\* CustomError('Interval')(code, args, defaultValue): reports and yields the default
PcError(code, defaultValue) == [kind |-> "return", value |-> defaultValue, signal |-> code]

\* array destructuring needs an iterable
Iterable(x) == x.t = "array"

\* PC of properties.ts, first definition.  isNoteName and isIntervalName are
\* destructured from Validators, which has no such keys: calling them throws.
PC(init) ==
  IF isPcChroma(init.chroma) THEN Returned(PcBuild(init.chroma.v))
  ELSE IF isPcNum(init.pcnum) THEN Returned(fromPcNum(init.pcnum.v))
  ELSE IF "isNoteName" \notin Validators THEN Thrown("TypeError")
  ELSE IF init.note.t = "string" /\ isNoteName(init.note.v)
    THEN Returned(fromNotesList(<<init.note.v>>))
  ELSE IF ~Iterable(init.notes) THEN Thrown("TypeError")
  ELSE IF isNoteArray(init.notes.v) THEN Returned(fromNotesList(init.notes.v))
  ELSE IF "isIntervalName" \notin Validators THEN Thrown("TypeError")
  ELSE IF init.interval.t = "string" /\ isIntervalName(init.interval.v)
    THEN Returned(fromIntervalsList(<<init.interval.v>>))
  ELSE IF ~Iterable(init.intervals) THEN Thrown("TypeError")
  ELSE IF isIntervalArray(init.intervals.v) THEN Returned(fromIntervalsList(init.intervals.v))
  ELSE PcError("InvalidIvlConstructor", EmptyPc)

\* PC of properties.ts, second definition: no note / interval field
PC_second(init) ==
  IF isPcChroma(init.chroma) THEN Returned(PcBuild(init.chroma.v))
  ELSE IF isPcNum(init.pcnum) THEN Returned(fromPcNum(init.pcnum.v))
  ELSE IF ~Iterable(init.notes) THEN Thrown("TypeError")
  ELSE IF isNoteArray(init.notes.v) THEN Returned(fromNotesList(init.notes.v))
  ELSE IF ~Iterable(init.intervals) THEN Thrown("TypeError")
  ELSE IF isIntervalArray(init.intervals.v) THEN Returned(fromIntervalsList(init.intervals.v))
  ELSE PcError("InvalidIvlConstructor", EmptyPc)

(***************************************************************************)
(* Constructor of index.ts                                                 *)
(***************************************************************************)
JsObj(fields) == [t |-> "object", v |-> fields]

isPcSet(set) == set.t = "object" /\ isPcChroma(set.v.chroma)

PC_src(src) ==
  LET chroma == IF isPcChroma(src) THEN src.v
                ELSE IF isPcNum(src) THEN fromNum(src.v)
                ELSE IF src.t = "array" THEN fromArray(src.v)
                ELSE IF isPcSet(src) THEN src.v.chroma.v
                ELSE EmptyPc.chroma
      setNum == toNum(chroma)
      normalized == normalize(chroma)
      intervals == toIntervals(normalized)
      length == Cardinality({i \in 1..Len(chroma) : chroma[i] = "1"})
  IN Returned([setNum |-> setNum,
               chroma |-> chroma,
               normalized |-> normalized,
               intervals |-> intervals,
               length |-> length,
               empty |-> (0 = length)])

(***************************************************************************)
(* Set algebra (methods.ts)                                                *)
(***************************************************************************)
\* a & b on non-negative integers
RECURSIVE BitAnd(_, _)
BitAnd(a, b) ==
  IF a = 0 \/ b = 0
  THEN 0
  ELSE (a % 2) * (b % 2) + 2 * BitAnd(a \div 2, b \div 2)

\* isSubsetOf without the test for equal sets
isSubsetOf_NonStrict(set, notes) ==
  LET one == PC(set)
      other == PC(notes)
  IN IF one.kind = "throw" THEN one
     ELSE IF other.kind = "throw" THEN other
     ELSE LET s == one.value.pcnum
              o == other.value.pcnum
          IN Returned(BitAnd(o, s) = o)

isSubsetOf(set, notes) ==
  LET one == PC(set)
      other == PC(notes)
  IN IF one.kind = "throw" THEN one
     ELSE IF other.kind = "throw" THEN other
     ELSE LET s == one.value.pcnum
              o == other.value.pcnum
          IN Returned(s # o /\ BitAnd(o, s) = o)

\* a | b on non-negative integers
RECURSIVE BitOr(_, _)
BitOr(a, b) ==
  IF a = 0 THEN b
  ELSE IF b = 0 THEN a
  ELSE (IF a % 2 = 1 \/ b % 2 = 1 THEN 1 ELSE 0) + 2 * BitOr(a \div 2, b \div 2)

\* isSupersetOf testing with & instead of |
isSupersetOf_And(set, notes) ==
  LET one == PC(set)
      other == PC(notes)
  IN IF one.kind = "throw" THEN one
     ELSE IF other.kind = "throw" THEN other
     ELSE LET s == one.value.pcnum
              o == other.value.pcnum
          IN Returned(s # o /\ BitAnd(o, s) = o)

isSupersetOf(set, notes) ==
  LET one == PC(set)
      other == PC(notes)
  IN IF one.kind = "throw" THEN one
     ELSE IF other.kind = "throw" THEN other
     ELSE LET s == one.value.pcnum
              o == other.value.pcnum
          IN Returned(s # o /\ BitOr(o, s) = o)

eq(a, b) == a = b

isEqual(one, other) ==
  LET a == PC(one)
      b == PC(other)
  IN IF a.kind = "throw" THEN a
     ELSE IF b.kind = "throw" THEN b
     ELSE Returned(eq(a.value.pcnum, b.value.pcnum))

\* isEqual of index.ts
isEqual_src(one, other) ==
  Returned(eq(PC_src(one).value.setNum, PC_src(other).value.setNum))

(***************************************************************************)
(* Enumerator (methods.ts)                                                 *)
(***************************************************************************)
\* BaseArray.range(a, b): the integers a..b in increasing order
range(a, b) == [i \in 1..(b - a + 1) |-> a + i - 1]

\* BaseArray.toBinary: the binary digits of a number, without padding
toBinary(n) == toString2(n)

\* chromaList stopping one identifier short
chromaList_Exclusive(len) ==
  LET ids == range(2048, 4094)
      all == [i \in 1..Len(ids) |-> toBinary(ids[i])]
  IN IF len.t = "undefined"
     THEN all
     ELSE SelectSeq(all, LAMBDA chroma : PC(OnlyChroma(chroma)).value.length = len.v)

chromaList(len) ==
  LET ids == range(2048, 4095)
      all == [i \in 1..Len(ids) |-> toBinary(ids[i])]
  IN IF len.t = "undefined"
     THEN all
     ELSE SelectSeq(all, LAMBDA chroma : PC(OnlyChroma(chroma)).value.length = len.v)

\* rotate turning to the right
rotate_Right(times, arr) ==
  LET len == Len(arr)
      n == ((times % len) + len) % len
  IN SubSeq(arr, len - n + 1, len) \o SubSeq(arr, 1, len - n)

\* BaseArray.rotate(times, arr): arr rotated to the left by times positions
rotate(times, arr) ==
  LET len == Len(arr)
      n == ((times % len) + len) % len
  IN SubSeq(arr, n + 1, len) \o SubSeq(arr, 1, n)

\* BaseArray.compact(arr): arr without its null entries
compact(arr) == SelectSeq(arr, LAMBDA v : v.t # "null")

\* the value of the parameter normalized, true when the argument is absent
DefaultTrue(flag) == IF flag.t = "undefined" THEN TRUE ELSE flag.v

\* modes keeping every rotation, whatever normalized is
modes_IgnoreFlag(set, flag) ==
  LET pcs == PC(set)
  IN IF pcs.kind = "throw" THEN pcs
     ELSE LET binary == pcs.value.chroma
              mapped == [k \in 1..Len(binary) |-> JsStr(rotate(k - 1, binary))]
              kept == compact(mapped)
          IN Returned([k \in 1..Len(kept) |-> kept[k].v])

modes(set, flag) ==
  LET pcs == PC(set)
      normalized == DefaultTrue(flag)
  IN IF pcs.kind = "throw" THEN pcs
     ELSE LET binary == pcs.value.chroma
              mapped == [k \in 1..Len(binary) |->
                           LET r == rotate(k - 1, binary)
                           IN IF normalized /\ r[1] = "0" THEN JsNull ELSE JsStr(r)]
              kept == compact(mapped)
          IN Returned([k \in 1..Len(kept) |-> kept[k].v])

(***************************************************************************)
(* The memoizing modules (part_001, part_002).  An operation takes the     *)
(* cache and yields its outcome together with the cache it leaves.         *)
(***************************************************************************)
EmptySet ==
  [num |-> 0,
   chroma |-> [i \in 1..12 |-> "0"],
   length |-> 0,
   normalized |-> [i \in 1..12 |-> "0"],
   empty |-> TRUE]

EmptyCache == <<>>

\* a number beyond the integers of the model, written by its decimal digits
DigitsNumber(digits) == [t |-> "number", digits |-> digits]

\* ToString(value) of JavaScript, as RegExp.prototype.test and a property key
\* apply it.  <<"*">> stands for the string of every value that is neither a
\* string nor a DigitsNumber: "undefined", a number of at most 11 characters,
\* names joined by commas, "[object Object]"; PC_SET_REGEX matches none.
StringOf(value) ==
  IF value.t = "string" THEN value.v
  ELSE IF value.t = "number" /\ "digits" \in DOMAIN value THEN value.digits
  ELSE <<"*">>

\* a DigitsNumber has 12 digits or more: it is outside 0..4095
isPcsetNum(set) ==
  set.t = "number" /\ "v" \in DOMAIN set /\ set.v >= 0 /\ set.v <= 4095

\* PC_SET_REGEX.test(set): the pattern is matched against StringOf(set)
isChroma(set) ==
  LET s == StringOf(set)
  IN Len(s) = 12 /\ \A i \in 1..Len(s) : s[i] \in BinaryDigits

isPcset(set) == set.t = "object" /\ isChroma(set.v.chroma)

\* String.prototype.charAt(i): "" outside the string
charAt(s, i) == IF i >= 0 /\ i < Len(s) THEN s[i + 1] ELSE ""

\* for (let i = 0; i < 12; i++) if (chroma.charAt(i) === '1') length++
RECURSIVE lengthLoop(_, _, _)
lengthLoop(chroma, i, length) ==
  IF i >= 12
  THEN length
  ELSE lengthLoop(chroma, i + 1, IF charAt(chroma, i) = "1" THEN length + 1 ELSE length)

\* normalize calls chroma.indexOf, which a number does not have
properties(chroma) ==
  IF chroma.t # "string"
  THEN Thrown("TypeError")
  ELSE LET num == parseInt(chroma.v)
           normalized == normalize(chroma.v)
           length == lengthLoop(chroma.v, 0, 0)
       IN Returned([num |-> num,
                    chroma |-> chroma.v,
                    normalized |-> normalized,
                    length |-> length,
                    empty |-> (length = 0)])

\* the loop of toChroma; pitch is declared once, before the loop
RECURSIVE toChromaLoop(_, _, _, _)
toChromaLoop(set, i, binary, pitch) ==
  IF i >= Len(set)
  THEN join(binary)
  ELSE LET asNote == IF isNoteName(set[i + 1]) THEN Note(set[i + 1]) ELSE pitch
           asIvl == IF isIntervalName(set[i + 1]) THEN Interval(set[i + 1]) ELSE asNote
       IN IF asIvl = Undefined
          THEN EmptySet.chroma
          ELSE toChromaLoop(set, i + 1,
                 IF asIvl.valid THEN [binary EXCEPT ![asIvl.chroma + 1] = 1] ELSE binary,
                 asIvl)

toChroma(set) ==
  IF Len(set) = 0 THEN EmptySet.chroma ELSE toChromaLoop(set, 0, ZeroBinary, Undefined)

\* the value pcset takes for chroma: src itself when isChroma accepts it
pcsetChroma(src) ==
  IF isChroma(src) THEN src
  ELSE IF isPcsetNum(src) THEN JsStr(padStart(toString2(src.v), 12, "0"))
  ELSE IF src.t = "array" THEN JsStr(toChroma(src.v))
  ELSE IF isPcset(src) THEN src.v.chroma
  ELSE JsStr(EmptySet.chroma)

\* the key of the cache entry a call with source src reads and writes
KeyOf(src) == StringOf(pcsetChroma(src))

\* cache[chroma] = value
Store(cache_, key, value) == (key :> value) @@ cache_

\* cache[chroma] || properties(chroma); the key of cache[chroma] is StringOf(chroma)
pcsetValue(cache_, src) ==
  LET chroma == pcsetChroma(src)
      key == StringOf(chroma)
  IN IF key \in DOMAIN cache_ THEN Returned(cache_[key]) ELSE properties(chroma)

\* the outcome of a call that throws: the cache is as it was
Throws(error, cache_) == [kind |-> "throw", error |-> error, cache |-> cache_]

\* the outcome of a call that returns
Yields(value, cache_) == [kind |-> "return", value |-> value, cache |-> cache_]

\* pcset keeping only the entry it stores
pcset_Evict(cache_, src) ==
  LET key == StringOf(pcsetChroma(src))
      value == pcsetValue(cache_, src)
  IN IF value.kind = "throw"
     THEN Throws(value.error, cache_)
     ELSE Yields(value.value, Store(EmptyCache, key, value.value))

\* return (cache[chroma] = cache[chroma] || properties(chroma))
pcset(cache_, src) ==
  LET key == StringOf(pcsetChroma(src))
      value == pcsetValue(cache_, src)
  IN IF value.kind = "throw"
     THEN Throws(value.error, cache_)
     ELSE Yields(value.value, Store(cache_, key, value.value))

\* range(2048, 4095).map(toBinary)
CatalogAll ==
  LET ids == range(2048, 4095)
  IN [i \in 1..Len(ids) |-> toBinary(ids[i])]

CatalogKeys == {CatalogAll[i] : i \in 1..Len(CatalogAll)}

\* properties(chroma) of every chroma of the catalog
CatalogFresh == [k \in CatalogKeys |-> properties(JsStr(k)).value]

\* all.filter(chroma => pcset(chroma).length === len).  The chromas of all
\* are distinct strings and a call writes the key of its own chroma only, so
\* each call finds at its key what the cache held before the filter: the
\* record it returns and stores is cache[chroma] || properties(chroma).
chromaList_pcset(cache_, len) ==
  LET all == CatalogAll
      filtered == [k \in CatalogKeys |->
                     IF k \in DOMAIN cache_ THEN cache_[k] ELSE CatalogFresh[k]]
  IN IF len.t = "undefined"
     THEN Yields(all, cache_)
     ELSE Yields(SelectSeq(all, LAMBDA c : filtered[c].length = len.v),
                 [k \in DOMAIN cache_ \cup CatalogKeys |->
                    IF k \in CatalogKeys THEN filtered[k] ELSE cache_[k]])

modes_pcset(cache_, set, flag) ==
  LET pcs == pcset(cache_, set)
  IN IF pcs.kind = "throw" THEN pcs
     ELSE LET normalized == DefaultTrue(flag)
              binary == pcs.value.chroma
              mapped == [k \in 1..Len(binary) |->
                           LET r == rotate(k - 1, binary)
                           IN IF normalized /\ r[1] = "0" THEN JsNull ELSE JsStr(r)]
              kept == compact(mapped)
          IN Yields([k \in 1..Len(kept) |-> kept[k].v], pcs.cache)

\* pcsetProp('num') of both operands, one after the other
isEqual_pcset(cache_, one, other) ==
  LET a == pcset(cache_, one)
  IN IF a.kind = "throw" THEN a
     ELSE LET b == pcset(a.cache, other)
          IN IF b.kind = "throw" THEN b
             ELSE Yields(a.value.num = b.value.num, b.cache)

isSubsetOf_pcset(cache_, set, notes) ==
  LET a == pcset(cache_, set)
  IN IF a.kind = "throw" THEN a
     ELSE LET b == pcset(a.cache, notes)
          IN IF b.kind = "throw" THEN b
             ELSE LET s == a.value.num
                      o == b.value.num
                  IN Yields(s # o /\ BitAnd(o, s) = o, b.cache)

isSupersetOf_pcset(cache_, set, notes) ==
  LET a == pcset(cache_, set)
  IN IF a.kind = "throw" THEN a
     ELSE LET b == pcset(a.cache, notes)
          IN IF b.kind = "throw" THEN b
             ELSE LET s == a.value.num
                      o == b.value.num
                  IN Yields(s # o /\ BitOr(o, s) = o, b.cache)

\* isNoteInSet without the test n.valid: the chroma of an invalid note is
\* undefined and charAt(undefined) reads index 0
isNoteInSet_NoValid(cache_, set, note) ==
  LET s == pcset(cache_, set)
      n == Note(note)
      index == IF n.valid THEN n.chroma ELSE 0
  IN IF s.kind = "throw" THEN s
     ELSE Yields(charAt(s.value.chroma, index) = "1", s.cache)

isNoteInSet(cache_, set, note) ==
  LET s == pcset(cache_, set)
      n == Note(note)
  IN IF s.kind = "throw" THEN s
     ELSE Yields(n.valid /\ charAt(s.value.chroma, n.chroma) = "1", s.cache)

\* notes.filter(memberOfSet)
RECURSIVE filterNotesLoop(_, _, _, _, _)
filterNotesLoop(cache_, set, notes, i, acc) ==
  IF i > Len(notes)
  THEN Yields(acc, cache_)
  ELSE LET m == isNoteInSet(cache_, set, notes[i])
       IN IF m.kind = "throw" THEN m
          ELSE filterNotesLoop(m.cache, set, notes, i + 1,
                 IF m.value THEN Append(acc, notes[i]) ELSE acc)

\* filterNotes keeping a note once only
RECURSIVE filterNotesLoop_Unique(_, _, _, _, _)
filterNotesLoop_Unique(cache_, set, notes, i, acc) ==
  IF i > Len(notes)
  THEN Yields(acc, cache_)
  ELSE LET m == isNoteInSet(cache_, set, notes[i])
           seen == \E k \in 1..Len(acc) : acc[k] = notes[i]
       IN IF m.kind = "throw" THEN m
          ELSE filterNotesLoop_Unique(m.cache, set, notes, i + 1,
                 IF m.value /\ ~seen THEN Append(acc, notes[i]) ELSE acc)

filterNotes_Unique(cache_, set, notes) == filterNotesLoop_Unique(cache_, set, notes, 1, <<>>)

filterNotes(cache_, set, notes) == filterNotesLoop(cache_, set, notes, 1, <<>>)

intervals(cache_, src) ==
  LET set == pcset(cache_, src)
  IN IF set.kind = "throw" THEN set
     ELSE LET chroma == set.value.chroma
              mapped == [k \in 1..Len(chroma) |->
                           IF chroma[k] = "1" THEN JsStr(INTERVALS[k]) ELSE JsNull]
              kept == compact(mapped)
          IN Yields([k \in 1..Len(kept) |-> kept[k].v], set.cache)

\* part_002: its own cache, records with setNum and intervals
EmptySet_2 ==
  [setNum |-> 0,
   chroma |-> [i \in 1..12 |-> "0"],
   normalized |-> [i \in 1..12 |-> "0"],
   intervals |-> <<>>,
   length |-> 0,
   empty |-> TRUE]

isSetNum(set) ==
  set.t = "number" /\ "v" \in DOMAIN set /\ set.v >= 0 /\ set.v <= 4095

isSetChroma(set) ==
  LET s == StringOf(set)
  IN Len(s) = 12 /\ \A i \in 1..Len(s) : s[i] \in BinaryDigits

isPcset_2(set) == set.t = "object" /\ isSetChroma(set.v.chroma)

setNumToChroma(num) == padStart(toString2(num), 12, "0")

\* the loop of listToSetChroma; pitch is declared once, before the loop
RECURSIVE listToSetChromaLoop(_, _, _, _)
listToSetChromaLoop(set, i, binary, pitch) ==
  IF i >= Len(set)
  THEN join(binary)
  ELSE LET asNote == IF isNoteName(set[i + 1]) THEN Note(set[i + 1]) ELSE pitch
           asIvl == IF isIntervalName(set[i + 1]) THEN Interval(set[i + 1]) ELSE asNote
       IN IF asIvl = Undefined \/ ~asIvl.valid
          THEN EmptySet_2.chroma
          ELSE listToSetChromaLoop(set, i + 1,
                 [binary EXCEPT ![asIvl.chroma + 1] = 1], asIvl)

listToSetChroma(set) ==
  IF Len(set) = 0
  THEN EmptySet_2.chroma
  ELSE listToSetChromaLoop(set, 0, ZeroBinary, Undefined)

chromaToNumber(chroma) == parseInt(chroma)

chromaToIntervals(chroma) ==
  LET mapped == [k \in 1..Len(chroma) |->
                   IF chroma[k] = "1" THEN JsStr(IntervalName(k - 1)) ELSE JsNull]
      kept == compact(mapped)
  IN [k \in 1..Len(kept) |-> kept[k].v]

\* normalize calls chroma.indexOf, which a number does not have
chromaToSet(chroma) ==
  IF chroma.t # "string"
  THEN Thrown("TypeError")
  ELSE LET setNum == chromaToNumber(chroma.v)
           normalized == normalize(chroma.v)
           intervals_ == chromaToIntervals(chroma.v)
           length == lengthLoop(chroma.v, 0, 0)
       IN Returned([setNum |-> setNum,
                    chroma |-> chroma.v,
                    normalized |-> normalized,
                    intervals |-> intervals_,
                    length |-> length,
                    empty |-> eq(0, length)])

pcsetChroma_2(src) ==
  IF isSetChroma(src) THEN src
  ELSE IF isSetNum(src) THEN JsStr(setNumToChroma(src.v))
  ELSE IF src.t = "array" THEN JsStr(listToSetChroma(src.v))
  ELSE IF isPcset_2(src) THEN src.v.chroma
  ELSE JsStr(EmptySet_2.chroma)

\* return (cache[chroma] = cache[chroma] || chromaToSet(chroma))
pcset_2(cache_, src) ==
  LET chroma == pcsetChroma_2(src)
      key == StringOf(chroma)
      value == IF key \in DOMAIN cache_ THEN Returned(cache_[key]) ELSE chromaToSet(chroma)
  IN IF value.kind = "throw"
     THEN Throws(value.error, cache_)
     ELSE Yields(value.value, Store(cache_, key, value.value))

(***************************************************************************)
(* Inputs                                                                  *)
(***************************************************************************)
\* the 4096 valid chromas
Chromas == [1..12 -> BinaryDigits]

\* the 4096 valid numeric identifiers
PcNums == 0..4095

\* names the lists are drawn from: notes, intervals and a name that is neither
Names == {"C", "C4", "D", "B", "3M", "7M", "X"}

ListsOf(pool, n) == UNION {[1..k -> pool] : k \in 0..n}

CChroma == <<"1", "0", "0", "0", "0", "0", "0", "0", "0", "0", "0", "0">>

\* a valid chroma, a chroma one character short, a chroma with a foreign character
InitChromas ==
  {Undefined, JsStr(CChroma), JsStr(Tail(CChroma)), JsStr([CChroma EXCEPT ![12] = "2"])}

InitPcNums == {Undefined, JsNum(5), JsNum(4096), JsNum(-1)}

InitNotes == {Undefined, JsStr("D"), JsStr("X")}

InitIntervals == {Undefined, JsStr("3M"), JsStr("X")}

InitNoteLists == {Undefined} \cup {JsArr(l) : l \in ListsOf({"D", "B", "X"}, MaxInitLen)}

InitIntervalLists == {Undefined} \cup {JsArr(l) : l \in ListsOf({"7M", "X"}, MaxInitLen)}

\* constructor inputs carrying any combination of fields
Inits ==
  {[chroma |-> c, pcnum |-> n, note |-> no, notes |-> ns, interval |-> iv, intervals |-> ivs] :
     c \in InitChromas, n \in InitPcNums, no \in InitNotes, ns \in InitNoteLists,
     iv \in InitIntervals, ivs \in InitIntervalLists}

Srcs ==
  {Undefined}
    \cup {JsStr(c) : c \in {CChroma, Tail(CChroma)}}
    \cup {JsNum(n) : n \in {5, 4096, -1}}
    \cup {JsArr(l) : l \in ListsOf({"D", "3M", "X"}, MaxInitLen)}
    \cup {JsObj([chroma |-> JsStr(c)]) : c \in {CChroma, Tail(CChroma)}}

\* pitch classes of the operands of the binary set algebra, in the order they
\* are added as PairBits grows
PairOrder == <<0, 11, 4, 7, 2, 9, 5, 1, 6, 3, 8, 10>>

PairClasses == {PairOrder[k] : k \in 1..Min(PairBits, 12)}

PairChromas == {c \in Chromas : \A i \in 1..12 : c[i] = "1" => (i - 1) \in PairClasses}

PairOperands ==
  {OnlyChroma(c) : c \in PairChromas} \cup {OnlyPcNum(toNum(c)) : c \in PairChromas}

OnlyNotes(l) == [NoInit EXCEPT !.notes = JsArr(l)]

\* operands of Methods.isEqual: a set as chroma, as pcnum and as notes list
EqualOperands ==
  PairOperands \cup {OnlyNotes(l) : l \in {<<"D", "B">>, <<"B", "D">>, <<"C">>}}

\* the chromas of PairChromas with at most two pitch classes
SmallChromas ==
  {c \in PairChromas : Cardinality({i \in 1..12 : c[i] = "1"}) <= 2}

\* operands of isEqual of index.ts: a set as chroma, as number, as record and
\* as list of names
SrcOperands ==
  {JsStr(c) : c \in SmallChromas}
    \cup {JsNum(toNum(c)) : c \in SmallChromas}
    \cup {JsObj([chroma |-> JsStr(c)]) : c \in SmallChromas}
    \cup {JsArr(l) : l \in ListsOf({"C", "B", "7M", "X"}, MaxInitLen)}

\* the len argument of chromaList: absent, or a number of pitch classes
CatalogLens == {Undefined} \cup {JsNum(k) : k \in 0..13}

\* the normalized argument of modes: absent, true or false
ModesFlags == {Undefined, JsBool(TRUE), JsBool(FALSE)}

\* a chroma of the catalog range, also written as a number and as digits
AChroma == <<"1", "0", "1", "0", "1", "0", "1", "0", "1", "0", "1", "0">>

\* sources of the calls that share a cache: a chroma string, the number
\* 101010101010, whose string is that chroma, and a list
CachePool == {JsStr(AChroma), DigitsNumber(AChroma), JsArr(<<"D", "X">>)}

\* operand pairs of the binary operations that share a cache
CachePairs ==
  {<<JsStr(AChroma), JsArr(<<"D", "X">>)>>,
   <<JsArr(<<"D", "X">>), DigitsNumber(AChroma)>>,
   <<DigitsNumber(AChroma), JsStr(AChroma)>>}

NoResult == "none"

(***************************************************************************)
(* Operations                                                              *)
(***************************************************************************)
Return(op_, value) ==
  /\ pc = "start"
  /\ op = op_
  /\ out' = value
  /\ pc' = "done"
  /\ UNCHANGED <<op, arg, cache, cache2, calls>>

\* what the caller of an operation of the memoizing modules sees
Outcome(result) ==
  IF result.kind = "throw" THEN Thrown(result.error) ELSE result.value

\* the return of an operation of the memoizing module part_001
ReturnCached(op_, result) ==
  /\ pc = "start"
  /\ op = op_
  /\ out' = Outcome(result)
  /\ cache' = result.cache
  /\ pc' = "done"
  /\ UNCHANGED <<op, arg, cache2, calls>>

Call_fromNum == Return("fromNum", fromNum(arg))

Call_toNum == Return("toNum", toNum(arg))

Call_normalize == Return("normalize", normalize(arg))

Call_fromNotes == Return("fromNotes", fromNotes(arg))

Call_fromIntervals == Return("fromIntervals", fromIntervals(arg))

Call_fromArray == Return("fromArray", fromArray(arg))

Call_isNoteArray == Return("isNoteArray", isNoteArray(arg))

Call_isIntervalArray == Return("isIntervalArray", isIntervalArray(arg))

Call_PC == Return("PC", PC(arg))

Call_PC_second == Return("PC_second", PC_second(arg))

Call_PC_src == Return("PC_src", PC_src(arg))

Call_isSubsetOf == Return("isSubsetOf", isSubsetOf(arg[1], arg[2]))

Call_isSupersetOf == Return("isSupersetOf", isSupersetOf(arg[1], arg[2]))

Call_isEqual == Return("isEqual", isEqual(arg[1], arg[2]))

Call_isEqual_src == Return("isEqual_src", isEqual_src(arg[1], arg[2]))


Call_chromaList == Return("chromaList", chromaList(arg))

Call_modes == Return("modes", modes(arg[1], arg[2]))

Call_isNoteInSet == ReturnCached("isNoteInSet", isNoteInSet(cache, arg[1], arg[2]))

Call_filterNotes == ReturnCached("filterNotes", filterNotes(cache, arg[1], arg[2]))

Call_toChroma == Return("toChroma", toChroma(arg))

Call_listToSetChroma == Return("listToSetChroma", listToSetChroma(arg))

Init ==
  /\ pc = "start"
  /\ out = NoResult
  /\ cache = EmptyCache
  /\ cache2 = EmptyCache
  /\ calls = <<>>
  /\ \/ op = "fromNum" /\ arg \in PcNums
     \/ op = "toNum" /\ arg \in Chromas
     \/ op = "normalize" /\ arg \in Chromas
     \/ op \in {"fromNotes", "fromIntervals", "fromArray", "isNoteArray", "isIntervalArray"}
          /\ arg \in ListsOf(Names, MaxLen)
     \/ op = "PC" /\ arg \in {OnlyChroma(c) : c \in Chromas} \cup Inits
     \/ op = "PC_second" /\ arg \in Inits
     \/ op = "PC_src" /\ arg \in Srcs
     \/ op = "isSubsetOf" /\ arg \in PairOperands \X PairOperands
     \/ op = "isSupersetOf" /\ arg \in PairOperands \X PairOperands
     \/ op = "isEqual" /\ arg \in EqualOperands \X EqualOperands
     \/ op = "isEqual_src" /\ arg \in SrcOperands \X SrcOperands
     \/ op = "chromaList" /\ arg \in CatalogLens
     \/ op = "modes" /\ arg \in {OnlyChroma(c) : c \in Chromas} \X ModesFlags
     \/ op = "toChroma" /\ arg \in ListsOf(Names, MaxLen)
     \/ op = "listToSetChroma" /\ arg \in ListsOf(Names, MaxLen)
     \/ /\ op = "isNoteInSet"
        /\ arg \in ({JsStr(c) : c \in PairChromas}
                      \cup {JsNum(5), Undefined, JsArr(<<"D", "7M">>), JsArr(<<"X", "D">>)})
                    \X (DOMAIN NoteChroma \cup {"3M", "X"})
     \/ /\ op = "filterNotes"
        /\ arg \in {JsStr(CChroma), JsNum(2049), JsArr(<<"D", "B">>), JsArr(<<>>)}
                    \X ListsOf(Names, MaxLen)

Next ==
  \/ Call_fromNum
  \/ Call_toNum
  \/ Call_normalize
  \/ Call_fromNotes
  \/ Call_fromIntervals
  \/ Call_fromArray
  \/ Call_isNoteArray
  \/ Call_isIntervalArray
  \/ Call_PC
  \/ Call_PC_second
  \/ Call_PC_src
  \/ Call_isSubsetOf
  \/ Call_isSupersetOf
  \/ Call_isEqual
  \/ Call_isEqual_src
  \/ Call_chromaList
  \/ Call_modes
  \/ Call_isNoteInSet
  \/ Call_filterNotes
  \/ Call_toChroma
  \/ Call_listToSetChroma

Spec == Init /\ [][Next]_vars

Done(op_) == pc = "done" /\ op = op_

(***************************************************************************)
(* Any sequence of calls of the memoizing modules                          *)
(***************************************************************************)
Invoke(op_, a, result) ==
  /\ op' = op_
  /\ arg' = a
  /\ out' = Outcome(result)
  /\ cache' = result.cache
  /\ pc' = "done"
  /\ UNCHANGED <<cache2, calls>>

Cached_pcset == \E src \in CachePool : Invoke("pcset", src, pcset(cache, src))

Cached_chromaList ==
  \E len \in {JsNum(1)} : Invoke("chromaList", len, chromaList_pcset(cache, len))

Cached_modes ==
  \E src \in CachePool :
    Invoke("modes", <<src, Undefined>>, modes_pcset(cache, src, Undefined))

Cached_isEqual ==
  \E pair \in CachePairs :
    Invoke("isEqual", pair, isEqual_pcset(cache, pair[1], pair[2]))

Cached_isSubsetOf ==
  \E pair \in CachePairs :
    Invoke("isSubsetOf", pair, isSubsetOf_pcset(cache, pair[1], pair[2]))

Cached_isSupersetOf ==
  \E pair \in CachePairs :
    Invoke("isSupersetOf", pair, isSupersetOf_pcset(cache, pair[1], pair[2]))

Cached_isNoteInSet ==
  \E set \in CachePool, note \in {"D"} :
    Invoke("isNoteInSet", <<set, note>>, isNoteInSet(cache, set, note))

Cached_filterNotes ==
  \E set \in CachePool, notes \in {<<"D", "X", "D">>} :
    Invoke("filterNotes", <<set, notes>>, filterNotes(cache, set, notes))

Cached_intervals ==
  \E src \in CachePool : Invoke("intervals", src, intervals(cache, src))

Cached_pcset_2 ==
  \E src \in {JsStr(AChroma), DigitsNumber(AChroma)} :
    LET result == pcset_2(cache2, src)
    IN /\ op' = "pcset_2"
       /\ arg' = src
       /\ out' = Outcome(result)
       /\ cache2' = result.cache
       /\ pc' = "done"
       /\ UNCHANGED <<cache, calls>>

InitCache ==
  /\ pc = "start"
  /\ op = NoResult
  /\ arg = NoResult
  /\ out = NoResult
  /\ cache = EmptyCache
  /\ cache2 = EmptyCache
  /\ calls = <<>>

NextCache ==
  \/ Cached_pcset
  \/ Cached_chromaList
  \/ Cached_modes
  \/ Cached_isEqual
  \/ Cached_isSubsetOf
  \/ Cached_isSupersetOf
  \/ Cached_isNoteInSet
  \/ Cached_filterNotes
  \/ Cached_intervals
  \/ Cached_pcset_2

SpecCache == InitCache /\ [][NextCache]_vars

(***************************************************************************)
(* Several pcset calls whose steps interleave: the read of cache[chroma],  *)
(* the derivation of the record and the write of cache[chroma] are         *)
(* separate steps of a call, and nothing is locked.                        *)
(***************************************************************************)
\* cache[chroma], read
Race_read ==
  \E p \in 1..NumCalls :
    /\ calls[p].at = "read"
    /\ LET key == KeyOf(calls[p].src)
           hit == IF key \in DOMAIN cache THEN cache[key] ELSE Undefined
       IN calls' = [calls EXCEPT ![p].at = "derive", ![p].hit = hit]
    /\ UNCHANGED <<op, arg, out, pc, cache, cache2>>

\* cache[chroma] || properties(chroma)
Race_derive ==
  \E p \in 1..NumCalls :
    /\ calls[p].at = "derive"
    /\ LET value == IF calls[p].hit # Undefined
                    THEN Returned(calls[p].hit)
                    ELSE properties(pcsetChroma(calls[p].src))
       IN calls' = IF value.kind = "throw"
                   THEN [calls EXCEPT ![p].at = "thrown"]
                   ELSE [calls EXCEPT ![p].at = "write", ![p].value = value.value]
    /\ UNCHANGED <<op, arg, out, pc, cache, cache2>>

\* a write that replaces the cache by the entry it writes
Race_write_Replace ==
  \E p \in 1..NumCalls :
    /\ calls[p].at = "write"
    /\ cache' = Store(EmptyCache, KeyOf(calls[p].src), calls[p].value)
    /\ calls' = [calls EXCEPT ![p].at = "done"]
    /\ UNCHANGED <<op, arg, out, pc, cache2>>

\* cache[chroma] = ..., whose value the call returns
Race_write ==
  \E p \in 1..NumCalls :
    /\ calls[p].at = "write"
    /\ cache' = Store(cache, KeyOf(calls[p].src), calls[p].value)
    /\ calls' = [calls EXCEPT ![p].at = "done"]
    /\ UNCHANGED <<op, arg, out, pc, cache2>>

InitRace ==
  /\ pc = "start"
  /\ op = NoResult
  /\ arg = NoResult
  /\ out = NoResult
  /\ cache = EmptyCache
  /\ cache2 = EmptyCache
  /\ calls \in [1..NumCalls ->
                  {[src |-> src, at |-> "read", hit |-> Undefined, value |-> Undefined] :
                     src \in {JsStr(AChroma), JsNum(2730), JsArr(<<"D", "X">>)}}]

NextRace ==
  \/ Race_read
  \/ Race_derive
  \/ Race_write

SpecRace == InitRace /\ [][NextRace]_vars

(***************************************************************************)
(* Properties                                                              *)
(***************************************************************************)
RECURSIVE CountOnes(_)
CountOnes(s) ==
  IF s = <<>> THEN 0 ELSE (IF Head(s) = "1" THEN 1 ELSE 0) + CountOnes(Tail(s))

EmptyChroma == <<"0", "0", "0", "0", "0", "0", "0", "0", "0", "0", "0", "0">>

\* C1: a non-empty list with an element, at any position, that does not
\* resolve to a valid note (resp. interval, resp. either) converts to the
\* all-zero chroma, never to the bits of its valid elements.
C1_FailSoft ==
  /\ Done("fromNotes") /\ (\E i \in 1..Len(arg) : ~isNoteName(arg[i]))
       => out = EmptyChroma
  /\ Done("fromIntervals") /\ (\E i \in 1..Len(arg) : ~isIntervalName(arg[i]))
       => out = EmptyChroma
  /\ Done("fromArray")
       /\ (\E i \in 1..Len(arg) : ~isNoteName(arg[i]) /\ ~isIntervalName(arg[i]))
       => out = EmptyChroma

\* the fields of a constructor input that pass their validators
ValidChromaField(init) == isPcChroma(init.chroma)
ValidPcNumField(init) == isPcNum(init.pcnum)
ValidNoteField(init) == init.note.t = "string" /\ isNoteName(init.note.v)
ValidNotesField(init) == init.notes.t = "array" /\ isNoteArray(init.notes.v)
ValidIntervalField(init) == init.interval.t = "string" /\ isIntervalName(init.interval.v)
ValidIntervalsField(init) == init.intervals.t = "array" /\ isIntervalArray(init.intervals.v)

HasValidField(init) ==
  \/ ValidChromaField(init)
  \/ ValidPcNumField(init)
  \/ ValidNoteField(init)
  \/ ValidNotesField(init)
  \/ ValidIntervalField(init)
  \/ ValidIntervalsField(init)

\* the record of the earliest valid field, in the order chroma, pcnum, note,
\* notes, interval, intervals
FirstValidRecord(init) ==
  IF ValidChromaField(init) THEN PcBuild(init.chroma.v)
  ELSE IF ValidPcNumField(init) THEN PcBuild(fromNum(init.pcnum.v))
  ELSE IF ValidNoteField(init) THEN PcBuild(fromNotes(<<init.note.v>>))
  ELSE IF ValidNotesField(init) THEN PcBuild(fromNotes(init.notes.v))
  ELSE IF ValidIntervalField(init) THEN PcBuild(fromIntervals(<<init.interval.v>>))
  ELSE PcBuild(fromIntervals(init.intervals.v))

\* C2: PC returns the record built from the earliest field that passes its
\* validator, in the order chroma, pcnum, note, notes, interval, intervals;
\* a field that fails validation is skipped in favour of the next one.
C2_Precedence ==
  Done("PC") /\ HasValidField(arg)
    => out.kind = "return" /\ out.value = FirstValidRecord(arg)

\* an input PC(src) of index.ts matches with no branch
Unrecognized(src) ==
  ~isPcChroma(src) /\ ~isPcNum(src) /\ src.t # "array" /\ ~isPcSet(src)

\* C3: every call of the constructor returns a well-formed record; with no
\* valid field PC does not abort, signals the invalid-constructor error and
\* returns the empty-set record; PC(src) of index.ts returns the empty-set
\* record for an unrecognized input.
C3_AlwaysReturns ==
  /\ Done("PC") => out.kind = "return" /\ isPcChroma(JsStr(out.value.chroma))
  /\ Done("PC") /\ ~HasValidField(arg)
       => out.kind = "return" /\ out.signal = "InvalidIvlConstructor" /\ out.value = EmptyPc
  /\ Done("PC_src") /\ Unrecognized(arg)
       => out.kind = "return" /\ out.value.chroma = EmptyChroma /\ out.value.setNum = 0

\* C4: isNoteArray (resp. isIntervalArray) accepts a list of length >= 1
\* exactly when every element is a valid note (resp. interval) name.
C4_ListValidators ==
  /\ Done("isNoteArray") /\ Len(arg) >= 1
       => (out <=> \A i \in 1..Len(arg) : isNoteName(arg[i]))
  /\ Done("isIntervalArray") /\ Len(arg) >= 1
       => (out <=> \A i \in 1..Len(arg) : isIntervalName(arg[i]))

\* C5: chromaFromNum and numFromChroma are mutually inverse between 0..4095
\* and the 12-character binary strings; index 0 is the most significant bit.
C5_NumChromaBijection ==
  /\ Done("fromNum")
       => /\ Len(out) = 12
          /\ \A i \in 0..11 : out[i + 1] = (IF (arg \div 2^(11 - i)) % 2 = 1 THEN "1" ELSE "0")
          /\ toNum(out) = arg
  /\ Done("toNum")
       => /\ out \in 0..4095
          /\ fromNum(out) = arg

C5_Witness ==
  /\ Done("fromNum")
  /\ arg = 5
  /\ out = <<"0", "0", "0", "0", "0", "0", "0", "0", "0", "1", "0", "1">>

\* C6: the intervals field of the record built from a valid chroma c names
\* exactly the indices set in the raw chroma c, in increasing index order.
C6_IntervalsOfRawChroma ==
  Done("PC") /\ ValidChromaField(arg)
    => /\ out.kind = "return"
       /\ out.value.intervals = toIntervals(arg.chroma.v)
       /\ \A i \in 0..11 :
            arg.chroma.v[i + 1] = "1"
              <=> \E k \in 1..Len(out.value.intervals) : out.value.intervals[k] = INTERVALS[i + 1]

\* C7: normalize(c) is the left rotation of c by the index of its leftmost
\* '1', so the result starts with '1'; the all-zero chroma is unchanged.
C7_NormalizeRotates ==
  Done("normalize")
    => IF \E i \in 1..12 : arg[i] = "1"
       THEN LET k == CHOOSE i \in 0..11 : arg[i + 1] = "1" /\ \A j \in 0..(i - 1) : arg[j + 1] # "1"
            IN /\ Len(out) = 12
               /\ \A i \in 0..11 : out[i + 1] = arg[((i + k) % 12) + 1]
               /\ out[1] = "1"
       ELSE out = arg

C7_Witness ==
  /\ Done("normalize")
  /\ arg = <<"0", "0", "1", "0", "0", "0", "0", "0", "0", "0", "0", "1">>
  /\ out = <<"1", "0", "0", "0", "0", "0", "0", "0", "0", "1", "0", "0">>

\* C8: normalize is idempotent on the 4096 valid chromas.
C8_NormalizeIdempotent ==
  Done("normalize") => normalize(out) = out

C8_Witness ==
  /\ Done("normalize")
  /\ out # arg
  /\ CountOnes(arg) >= 2
  /\ normalize(out) = out

\* C9: the record built from a valid chroma c has length equal to the number
\* of '1' characters of c, as many intervals, and empty true iff length is 0.
C9_Cardinality ==
  /\ Done("PC") /\ ValidChromaField(arg)
       => /\ out.kind = "return"
          /\ out.value.length = CountOnes(arg.chroma.v)
          /\ Len(out.value.intervals) = out.value.length
          /\ out.value.empty <=> (out.value.length = 0)
  /\ Done("PC_src") /\ isPcChroma(arg)
       => /\ out.value.length = CountOnes(arg.v)
          /\ Len(out.value.intervals) = out.value.length
          /\ out.value.empty <=> (out.value.length = 0)

C9_Witness ==
  /\ Done("PC")
  /\ arg = OnlyChroma(<<"0", "1", "0", "0", "1", "0", "0", "0", "0", "0", "0", "1">>)
  /\ out.kind = "return"
  /\ out.value.length = 3
  /\ Len(out.value.intervals) = 3
  /\ ~out.value.empty

\* the chroma an operand of the set algebra denotes
OperandChroma(init) ==
  IF init.chroma.t = "string" THEN init.chroma.v ELSE fromNum(init.pcnum.v)

\* C10: isStrictSubset(first, second) is true iff the two sets differ and
\* every pitch class of the second is in the first.
C10_StrictSubset ==
  Done("isSubsetOf")
    => LET S == OperandChroma(arg[1])
           O == OperandChroma(arg[2])
       IN /\ out.kind = "return"
          /\ out.value <=> (S # O /\ \A i \in 1..12 : O[i] = "1" => S[i] = "1")

C10_Witness ==
  /\ Done("isSubsetOf")
  /\ arg[1].chroma.t = "string"
  /\ arg[2].pcnum.t = "number"
  /\ CountOnes(OperandChroma(arg[2])) >= 2
  /\ out.kind = "return"
  /\ out.value

\* C11: isStrictSuperset(base, other) is true iff the two sets differ and
\* every pitch class of base is in other.
C11_StrictSuperset ==
  Done("isSupersetOf")
    => LET S == OperandChroma(arg[1])
           O == OperandChroma(arg[2])
       IN /\ out.kind = "return"
          /\ out.value <=> (S # O /\ \A i \in 1..12 : S[i] = "1" => O[i] = "1")

C11_Witness ==
  /\ Done("isSupersetOf")
  /\ arg[1].pcnum.t = "number"
  /\ arg[2].chroma.t = "string"
  /\ CountOnes(OperandChroma(arg[1])) >= 1
  /\ CountOnes(OperandChroma(arg[2])) >= 3
  /\ out.kind = "return"
  /\ out.value

\* C12: isStrictSubset(A, B) implies isStrictSuperset(B, A), and
\* isEqual(A, B) implies that neither is a strict subset or superset of the
\* other, in either order.
C12_SubsetLaws ==
  /\ Done("isSubsetOf") /\ out.kind = "return" /\ out.value
       => isSupersetOf(arg[2], arg[1]) = Returned(TRUE)
  /\ Done("isEqual") /\ out.kind = "return" /\ out.value
       => /\ isSubsetOf(arg[1], arg[2]) = Returned(FALSE)
          /\ isSubsetOf(arg[2], arg[1]) = Returned(FALSE)
          /\ isSupersetOf(arg[1], arg[2]) = Returned(FALSE)
          /\ isSupersetOf(arg[2], arg[1]) = Returned(FALSE)

C12_Witness ==
  /\ Done("isSubsetOf")
  /\ out.kind = "return"
  /\ out.value
  /\ CountOnes(OperandChroma(arg[2])) >= 1
  /\ isSupersetOf(arg[2], arg[1]) = Returned(TRUE)
  /\ isSupersetOf(arg[1], arg[2]) = Returned(FALSE)

\* the chroma an operand of isEqual denotes, whatever its form
Denoted(x) ==
  IF "t" \in DOMAIN x
  THEN PC_src(x).value.chroma
  ELSE IF x.chroma.t = "string" THEN x.chroma.v
  ELSE IF x.pcnum.t = "number" THEN fromNum(x.pcnum.v)
  ELSE fromNotes(x.notes.v)

\* C13: isEqual depends only on the denoted set, not on the form of the
\* operands (chroma, numeric id, list of names, record): it is true exactly
\* when both operands denote the same set.
C13_EqualAnyForm ==
  /\ Done("isEqual")
       => out.kind = "return" /\ (out.value <=> Denoted(arg[1]) = Denoted(arg[2]))
  /\ Done("isEqual_src")
       => out.kind = "return" /\ (out.value <=> Denoted(arg[1]) = Denoted(arg[2]))

\* number of bits set in the 12-bit number n
BitsOf(n) == Cardinality({i \in 0..11 : (n \div 2^i) % 2 = 1})

\* the identifiers the catalog holds for a given len argument
CatalogIds(len) ==
  {n \in 2048..4095 : len.t = "undefined" \/ BitsOf(n) = len.v}

\* C14: chromaCatalog() returns the chromas of the identifiers 2048..4095,
\* each once, in increasing numeric order, all with bit 0 set;
\* chromaCatalog(k) returns those of them with exactly k set bits, in the
\* same order; chromaCatalog(1) = ["100000000000"].
C14_Catalog ==
  Done("chromaList")
    => /\ Len(out) = Cardinality(CatalogIds(arg))
       /\ \A i \in 1..Len(out) :
            /\ isPcChroma(JsStr(out[i]))
            /\ out[i][1] = "1"
            /\ toNum(out[i]) \in CatalogIds(arg)
       /\ \A i \in 1..(Len(out) - 1) : toNum(out[i]) < toNum(out[i + 1])
       /\ arg.t = "undefined" => Len(out) = 2048
       /\ arg = JsNum(1) => out = <<CChroma>>

C14_Witness ==
  /\ Done("chromaList")
  /\ arg = JsNum(3)
  /\ Len(out) = 55
  /\ out[1] = <<"1", "0", "0", "0", "0", "0", "0", "0", "0", "0", "1", "1">>
  /\ out[55] = <<"1", "1", "1", "0", "0", "0", "0", "0", "0", "0", "0", "0">>

\* the left rotation of the chroma c by i positions
RotationOf(c, i) == [j \in 1..12 |-> c[((j - 1 + i) % 12) + 1]]

\* the rotation indices, in increasing order, whose rotation is kept
RECURSIVE KeptIndices(_, _, _)
KeptIndices(c, i, all) ==
  IF i > 11 THEN <<>>
  ELSE (IF all \/ c[i + 1] = "1" THEN <<i>> ELSE <<>>) \o KeptIndices(c, i + 1, all)

\* C15: modes(set, false) is the 12 left rotations of the chroma by
\* 0, 1, ..., 11 in that order; modes(set, true) is the sub-sequence of the
\* rotations that start with '1', in increasing rotation order, without holes.
C15_Modes ==
  Done("modes")
    => LET c == arg[1].chroma.v
           all == arg[2] = JsBool(FALSE)
           idx == KeptIndices(c, 0, all)
       IN /\ out.kind = "return"
          /\ Len(out.value) = Len(idx)
          /\ \A k \in 1..Len(idx) : out.value[k] = RotationOf(c, idx[k])
          /\ all => Len(out.value) = 12
          /\ ~all => \A k \in 1..Len(out.value) : out.value[k][1] = "1"

C15_Witness ==
  /\ Done("modes")
  /\ arg[1].chroma.v = <<"1", "0", "1", "0", "1", "1", "0", "1", "0", "1", "0", "1">>
  /\ arg[2] = JsBool(TRUE)
  /\ out.kind = "return"
  /\ Len(out.value) = 7
  /\ out.value[1] = arg[1].chroma.v
  /\ out.value[2] = <<"1", "0", "1", "1", "0", "1", "0", "1", "0", "1", "1", "0">>

\* the note resolves validly to a pitch class of the set src denotes
NoteIsIn(src, note) ==
  /\ isNoteName(note)
  /\ pcsetChroma(src).v[NoteChroma[note] + 1] = "1"

\* C16: containsNote(set, note) is true iff the note resolves validly and
\* the bit of its pitch class is set in the chroma of the set; it is false
\* for every note that does not resolve, whatever the set.
C16_ContainsNote ==
  Done("isNoteInSet")
    => /\ out \in BOOLEAN
       /\ out <=> NoteIsIn(arg[1], arg[2])
       /\ ~isNoteName(arg[2]) => out = FALSE

C16_Witness ==
  /\ Done("isNoteInSet")
  /\ arg[1] = JsStr(<<"1", "0", "0", "0", "0", "0", "0", "0", "0", "0", "0", "1">>)
  /\ arg[2] = "B"
  /\ out = TRUE

\* C17: filterNotes(set, noteList) is the sub-sequence of noteList of the
\* notes the set contains, in their original order, duplicates kept.
C17_FilterNotes ==
  Done("filterNotes")
    => out = SelectSeq(arg[2], LAMBDA note : NoteIsIn(arg[1], note))

C17_Witness ==
  /\ Done("filterNotes")
  /\ arg[1] = JsNum(2049)
  /\ arg[2] = <<"B", "D", "B">>
  /\ out = <<"B", "B">>

\* C18: in every state reachable by any sequence of calls, every cache key
\* is a valid 12-character chroma, the entry under key k is the record
\* derived freshly from k, the cache holds at most 4096 entries, and each
\* pcset call has the outcome it has with an empty cache.
C18_TransparentBounded ==
  /\ \A k \in DOMAIN cache :
       /\ k \in Chromas
       /\ cache[k].chroma = k
       /\ Returned(cache[k]) = properties(JsStr(k))
  /\ \A k \in DOMAIN cache2 :
       /\ k \in Chromas
       /\ cache2[k].chroma = k
       /\ Returned(cache2[k]) = chromaToSet(JsStr(k))
  /\ Cardinality(DOMAIN cache) <= 4096
  /\ Cardinality(DOMAIN cache2) <= 4096
  /\ Done("pcset") => out = Outcome(pcset(EmptyCache, arg))
  /\ Done("pcset_2") => out = Outcome(pcset_2(EmptyCache, arg))

\* C19: a step never removes a cache entry nor replaces it by another
\* record, and a pcset call adds no key other than that of its own chroma.
\* before @@ after = after says that after has every key of before, with the
\* record before has for it.
C19_AppendOnly ==
  [][/\ cache @@ cache' = cache'
     /\ cache2 @@ cache2' = cache2'
     /\ op' = "pcset" => DOMAIN cache' \subseteq DOMAIN cache \cup {KeyOf(arg')}
     /\ op' = "pcset_2" => DOMAIN cache2' \subseteq DOMAIN cache2 \cup {StringOf(pcsetChroma_2(arg'))}
    ]_vars

C19_Witness ==
  /\ Done("pcset")
  /\ arg = JsArr(<<"D", "X">>)
  /\ DOMAIN cache = {AChroma, KeyOf(arg)}
  /\ Cardinality(DOMAIN cache) = 2
  /\ DOMAIN cache2 = {AChroma}

\* the cache after the calls p, p + 1, ... run one after the other
RECURSIVE Sequential(_, _)
Sequential(cache_, p) ==
  IF p > NumCalls
  THEN cache_
  ELSE Sequential(pcset(cache_, calls[p].src).cache, p + 1)

AllDone == \A p \in DOMAIN calls : calls[p].at = "done"

\* C20: under every interleaving of the read, derive and write steps of
\* concurrent pcset calls, each call returns the record derived from its own
\* chroma, no key holds the record of another chroma, and the final cache is
\* that of the calls run one after the other.
C20_BenignRace ==
  /\ \A p \in DOMAIN calls :
       calls[p].at = "done"
         => Returned(calls[p].value) = properties(pcsetChroma(calls[p].src))
  /\ \A k \in DOMAIN cache : Returned(cache[k]) = properties(JsStr(k))
  /\ (calls # <<>> /\ AllDone) => cache = Sequential(EmptyCache, 1)

\* two calls of the same chroma that both missed the cache and both wrote
C20_Witness ==
  /\ calls # <<>>
  /\ AllDone
  /\ calls[1].src = JsStr(AChroma)
  /\ calls[2].src = JsNum(2730)
  /\ calls[1].hit = Undefined
  /\ calls[2].hit = Undefined
  /\ DOMAIN cache = {AChroma}

ElementsOf(list) == {list[i] : i \in 1..Len(list)}

\* the lists with the elements of list, in any order and multiplicity
Rearranged(list) ==
  {other \in ListsOf(Names, MaxLen) : ElementsOf(other) = ElementsOf(list)}

\* bit i of chroma is set iff an element of list resolves to pitch class i
BitsOfElements(chroma, list, pitchClass) ==
  \A i \in 0..11 :
    chroma[i + 1] = "1" <=> \E name \in ElementsOf(list) : pitchClass[name] = i

\* C21: a list-to-chroma converter returns the same chroma for every
\* permutation or duplication of its list, invalid names included, and when
\* all elements are valid bit i is set iff an element resolves to pitch
\* class i.
C21_OrderFree ==
  /\ Done("fromNotes")
       => /\ \A other \in Rearranged(arg) : fromNotes(other) = out
          /\ (arg # <<>> /\ \A name \in ElementsOf(arg) : isNoteName(name))
               => BitsOfElements(out, arg, NoteChroma)
  /\ Done("fromIntervals")
       => /\ \A other \in Rearranged(arg) : fromIntervals(other) = out
          /\ (arg # <<>> /\ \A name \in ElementsOf(arg) : isIntervalName(name))
               => BitsOfElements(out, arg, IntervalChroma)
  /\ Done("fromArray")
       => /\ \A other \in Rearranged(arg) : fromArray(other) = out
          /\ (arg # <<>> /\ \A name \in ElementsOf(arg) : isNoteName(name) \/ isIntervalName(name))
               => BitsOfElements(out, arg, NoteChroma @@ IntervalChroma)
  /\ Done("toChroma")
       => /\ \A other \in Rearranged(arg) : toChroma(other) = out
          /\ (arg # <<>> /\ \A name \in ElementsOf(arg) : isNoteName(name) \/ isIntervalName(name))
               => BitsOfElements(out, arg, NoteChroma @@ IntervalChroma)
  /\ Done("listToSetChroma")
       => /\ \A other \in Rearranged(arg) : listToSetChroma(other) = out
          /\ (arg # <<>> /\ \A name \in ElementsOf(arg) : isNoteName(name) \/ isIntervalName(name))
               => BitsOfElements(out, arg, NoteChroma @@ IntervalChroma)

\* C22: for every valid chroma c, modes(c, true) has length(c) elements,
\* none for the empty set, each with as many set bits as c, and when c is
\* not empty the first is the normalized chroma of the record of c.
C22_ModesAgree ==
  (Done("modes") /\ arg[2] = JsBool(TRUE))
    => LET c == arg[1].chroma.v
           record == PcBuild(c)
       IN /\ out.kind = "return"
          /\ Len(out.value) = record.length
          /\ record.empty => out.value = <<>>
          /\ \A k \in 1..Len(out.value) : CountOnes(out.value[k]) = CountOnes(c)
          /\ ~record.empty
               => /\ out.value[1] = record.normalized
                  /\ out.value[1] = normalize(c)

C22_Witness ==
  /\ Done("modes")
  /\ arg[2] = JsBool(TRUE)
  /\ arg[1].chroma.v = <<"0", "1", "1", "0", "0", "0", "0", "0", "0", "0", "0", "0">>
  /\ out.kind = "return"
  /\ Len(out.value) = 2
  /\ out.value[1] = <<"1", "1", "0", "0", "0", "0", "0", "0", "0", "0", "0", "0">>

=============================================================================
